---- MODULE Spec2Model ----
(***************************************************************************)
(* Online Retail API (src/scr/index.js): an Express application that maps  *)
(* HTTP requests on the "products" resource to single SQL statements run   *)
(* on a connection checked out of a pg Pool.                               *)
(*                                                                         *)
(* Strings are sequences of one-character strings so that the JavaScript   *)
(* conversions the handlers rely on (isNaN, parseInt, toUpperCase, !x) are *)
(* computed and not assumed.                                               *)
(***************************************************************************)
EXTENDS Integers, Sequences, FiniteSets, TLC

VARIABLES products, nextId, now, checkedOut, background, req, deleted

vars == <<products, nextId, now, checkedOut, background, req, deleted>>

(***************************************************************************)
(* Bounds of the model.                                                    *)
(***************************************************************************)
\* number of individually tracked concurrent requests
NReq == 2
\* largest product_id the sequence hands out before creates are disabled
MaxId == 3
\* largest value of the logical CURRENT_TIMESTAMP
MaxClock == 1

(***************************************************************************)
(* JavaScript values (JSON body fields, query parameters).                 *)
(***************************************************************************)
Undef == [t |-> "undefined"]
Null == [t |-> "null"]
Bool(b) == [t |-> "boolean", b |-> b]
Num(n) == [t |-> "number", n |-> n]
Str(s) == [t |-> "string", s |-> s]
\* a repeated query parameter (?k=a&k=b) reaches the handler as an array
Arr == [t |-> "array"]
\* the result of a numeric conversion that is not a number
NaN == [t |-> "NaN"]

Digits == <<"0", "1", "2", "3", "4", "5", "6", "7", "8", "9">>

IsDigit(c) == \E i \in 1..10 : Digits[i] = c

DigitVal(c) == (CHOOSE i \in 1..10 : Digits[i] = c) - 1

AllDigits(s) == \A i \in 1..Len(s) : IsDigit(s[i])

RECURSIVE DigitsVal(_)
DigitsVal(s) ==
  IF s = <<>> THEN 0
  ELSE 10 * DigitsVal(SubSeq(s, 1, Len(s) - 1)) + DigitVal(s[Len(s)])

IsSign(c) == c \in {"+", "-"}

Unsigned(s) == IF s # <<>> /\ IsSign(s[1]) THEN Tail(s) ELSE s

Signed(s, n) == IF s # <<>> /\ s[1] = "-" THEN 0 - n ELSE n

\* length of the longest prefix of s made of digits
RECURSIVE DigitPrefix(_)
DigitPrefix(s) ==
  IF s = <<>> \/ ~IsDigit(s[1]) THEN 0 ELSE 1 + DigitPrefix(Tail(s))

\* StrDecimalLiteral without exponent: digits, digits "." digits*, "." digits+
IsDecimalLiteral(u) ==
  LET k == DigitPrefix(u)
      rest == SubSeq(u, k + 1, Len(u))
  IN \/ k > 0 /\ rest = <<>>
     \/ k > 0 /\ rest # <<>> /\ rest[1] = "." /\ AllDigits(Tail(rest))
     \/ k = 0 /\ rest # <<>> /\ rest[1] = "." /\ Len(rest) > 1 /\ AllDigits(Tail(rest))

\* Number(s) for a string: the empty string is 0, a decimal literal its value
\* (truncated towards zero here: only its sign is read), anything else NaN
StringToNumber(s) ==
  IF s = <<>> THEN Num(0)
  ELSE IF IsDecimalLiteral(Unsigned(s))
       THEN Num(Signed(s, DigitsVal(SubSeq(Unsigned(s), 1, DigitPrefix(Unsigned(s))))))
       ELSE NaN

\* ToNumber
ToNumber(v) ==
  CASE v.t = "undefined" -> NaN
    [] v.t = "null" -> Num(0)
    [] v.t = "boolean" -> Num(IF v.b THEN 1 ELSE 0)
    [] v.t = "number" -> v
    [] v.t = "string" -> StringToNumber(v.s)
    [] OTHER -> NaN

\* the global isNaN(v)
isNaN(v) == ToNumber(v).t = "NaN"

\* v <= 0 with both sides converted to numbers; false when v converts to NaN
LeqZero(v) == ToNumber(v).t = "number" /\ ToNumber(v).n <= 0

\* !v
Falsy(v) ==
  \/ v.t \in {"undefined", "null", "NaN"}
  \/ v.t = "boolean" /\ ~v.b
  \/ v.t = "number" /\ v.n = 0
  \/ v.t = "string" /\ v.s = <<>>

\* parseInt(s): optional sign, then the longest run of digits; NaN without one
parseInt(s) ==
  LET u == Unsigned(s)
      k == DigitPrefix(u)
  IN IF k = 0 THEN NaN ELSE Num(Signed(s, DigitsVal(SubSeq(u, 1, k))))

Lower == <<"a", "b", "c", "d", "e", "f", "g", "h", "i", "j", "k", "l", "m",
           "n", "o", "p", "q", "r", "s", "t", "u", "v", "w", "x", "y", "z">>
Upper == <<"A", "B", "C", "D", "E", "F", "G", "H", "I", "J", "K", "L", "M",
           "N", "O", "P", "Q", "R", "S", "T", "U", "V", "W", "X", "Y", "Z">>

UpperChar(c) ==
  IF \E i \in 1..Len(Lower) : Lower[i] = c
  THEN Upper[CHOOSE i \in 1..Len(Lower) : Lower[i] = c]
  ELSE c

\* String.prototype.toUpperCase
toUpperCase(s) == [i \in 1..Len(s) |-> UpperChar(s[i])]

(***************************************************************************)
(* The store: the products table of the PostgreSQL database the pool       *)
(* connects to.  Its schema and the engine are not part of the source; the *)
(* statements below follow the data model of the specification and         *)
(* PostgreSQL's treatment of the parameters the handlers pass.             *)
(***************************************************************************)
NoError == "none"
UniqueViolation == "23505"
InvalidTextRepresentation == "22P02"

Ok(rows) == [err |-> NoError, rows |-> rows]
Failed(code) == [err |-> code, rows |-> <<>>]

\* a parameter bound to the integer column product_id
PgInteger(v) ==
  CASE v.t = "number" -> Ok(<<v.n>>)
    [] v.t = "string" /\ Unsigned(v.s) # <<>> /\ AllDigits(Unsigned(v.s)) ->
         Ok(<<Signed(v.s, DigitsVal(Unsigned(v.s)))>>)
    [] OTHER -> Failed(InvalidTextRepresentation)

\* a parameter bound to the numeric column unit_price; undefined and null
\* are sent as NULL, a boolean as the text "true"/"false"
PgNumeric(v) ==
  CASE v.t \in {"undefined", "null"} -> Ok(<<Null>>)
    [] v.t = "number" -> Ok(<<v>>)
    [] v.t = "string" /\ IsDecimalLiteral(Unsigned(v.s)) -> Ok(<<StringToNumber(v.s)>>)
    [] OTHER -> Failed(InvalidTextRepresentation)

\* column defaults of a row the API inserts
DefaultStockQuantity == 0
DefaultReorderLevel == 10

NewRow(id, code, desc, price) ==
  [product_id |-> id, stock_code |-> code, description |-> desc,
   unit_price |-> price, stock_quantity |-> DefaultStockQuantity,
   reorder_level |-> DefaultReorderLevel, is_active |-> TRUE, updated_at |-> 0]

\* the table as imported before the service starts
SeedRows ==
  { [product_id |-> 1, stock_code |-> <<"A">>, description |-> <<"V">>,
     unit_price |-> Num(3), stock_quantity |-> 9, reorder_level |-> 5,
     is_active |-> TRUE, updated_at |-> 0] }

\* the sequences that list the rows of set S once each, in any order
RECURSIVE Orderings(_)
Orderings(S) ==
  IF S = {} THEN {<<>>}
  ELSE UNION { { <<x>> \o t : t \in Orderings(S \ {x}) } : x \in S }

CharOrder == <<"-", ".", "0", "1", "2", "3", "4", "5", "6", "7", "8", "9">> \o Upper \o Lower

Rank(c) == CHOOSE i \in 1..Len(CharOrder) : CharOrder[i] = c

RECURSIVE StrLeq(_, _)
StrLeq(a, b) ==
  IF a = <<>> THEN TRUE
  ELSE IF b = <<>> THEN FALSE
  ELSE IF a[1] = b[1] THEN StrLeq(Tail(a), Tail(b))
  ELSE Rank(a[1]) < Rank(b[1])

\* x sorts at or before y in ORDER BY col ASC (NULL sorts last)
ColLeq(col, x, y) ==
  CASE col = "product_id" -> x.product_id <= y.product_id
    [] col = "stock_code" -> StrLeq(x.stock_code, y.stock_code)
    [] col = "description" -> StrLeq(x.description, y.description)
    [] col = "unit_price" ->
         \/ y.unit_price.t = "null"
         \/ x.unit_price.t = "number" /\ y.unit_price.t = "number"
              /\ x.unit_price.n <= y.unit_price.n
    [] col = "stock_quantity" -> x.stock_quantity <= y.stock_quantity

IsOrdered(rows, col, dir) ==
  \A i \in 1..Len(rows) : \A j \in 1..Len(rows) :
    i < j => IF dir = "ASC" THEN ColLeq(col, rows[i], rows[j])
                            ELSE ColLeq(col, rows[j], rows[i])

\* the results ORDER BY col dir may give for the rows of S (ties in any order)
OrderBy(S, col, dir) == { rows \in Orderings(S) : IsOrdered(rows, col, dir) }

\* LIMIT lim OFFSET off
LimitOffset(rows, lim, off) ==
  SubSeq(rows, off + 1, IF off + lim < Len(rows) THEN off + lim ELSE Len(rows))

\* SELECT * FROM products WHERE product_id = $1
SelectByProductId(T, v) ==
  IF PgInteger(v).err # NoError THEN {PgInteger(v)}
  ELSE { Ok(rows) : rows \in Orderings({ x \in T : x.product_id = PgInteger(v).rows[1] }) }

\* SELECT * FROM products WHERE stock_code = $1
SelectByStockCode(T, v) ==
  { Ok(rows) : rows \in Orderings({ x \in T : x.stock_code = v.s }) }

\* SELECT * FROM products ORDER BY col dir LIMIT lim OFFSET off
SelectList(T, col, dir, lim, off) ==
  { Ok(LimitOffset(rows, lim, off)) : rows \in OrderBy(T, col, dir) }

LowStockColumns(x) ==
  [product_id |-> x.product_id, stock_code |-> x.stock_code,
   description |-> x.description, stock_quantity |-> x.stock_quantity,
   reorder_level |-> x.reorder_level]

\* SELECT ... FROM products WHERE stock_quantity <= reorder_level ORDER BY stock_quantity ASC
SelectLowStock(T) ==
  { Ok([i \in 1..Len(rows) |-> LowStockColumns(rows[i])]) :
      rows \in OrderBy({ x \in T : x.stock_quantity <= x.reorder_level },
                       "stock_quantity", "ASC") }

\* SUM(stock_quantity)
RECURSIVE SumStock(_)
SumStock(S) ==
  IF S = {} THEN 0
  ELSE LET x == CHOOSE y \in S : TRUE IN x.stock_quantity + SumStock(S \ {x})

\* the sum of the non-NULL unit prices
RECURSIVE SumPrice(_)
SumPrice(S) ==
  IF S = {} THEN 0
  ELSE LET x == CHOOSE y \in S : TRUE
       IN (IF x.unit_price.t = "number" THEN x.unit_price.n ELSE 0) + SumPrice(S \ {x})

\* SELECT COUNT(*), COUNT(CASE WHEN is_active ...), AVG(unit_price), SUM(stock_quantity);
\* the average is kept as the sum and the count of the non-NULL prices
SelectSummary(T) ==
  Ok(<<[total_products |-> Cardinality(T),
        active_products |-> Cardinality({ x \in T : x.is_active }),
        price_sum |-> SumPrice(T),
        price_count |-> Cardinality({ x \in T : x.unit_price.t = "number" }),
        total_stock |-> SumStock(T)]>>)

\* INSERT INTO products (stock_code, description, unit_price) VALUES ($1, $2, $3)
\* RETURNING *: [result, table, sequence].  The sequence value is drawn before
\* the unique index is checked, so a duplicate still consumes it.
Insert(T, seq, code, desc, price) ==
  IF PgNumeric(price).err # NoError
  THEN [result |-> PgNumeric(price), table |-> T, seq |-> seq]
  ELSE IF \E x \in T : x.stock_code = code.s
  THEN [result |-> Failed(UniqueViolation), table |-> T, seq |-> seq + 1]
  ELSE LET row == NewRow(seq, code.s, desc.s, PgNumeric(price).rows[1])
       IN [result |-> Ok(<<row>>), table |-> T \cup {row}, seq |-> seq + 1]

\* UPDATE products SET stock_code=$1, description=$2, unit_price=$3,
\* updated_at=CURRENT_TIMESTAMP WHERE product_id=$4 RETURNING *
Update(T, clock, code, desc, price, id) ==
  IF PgNumeric(price).err # NoError THEN [result |-> PgNumeric(price), table |-> T]
  ELSE IF PgInteger(id).err # NoError THEN [result |-> PgInteger(id), table |-> T]
  ELSE LET hit == { x \in T : x.product_id = PgInteger(id).rows[1] }
           new(x) == [x EXCEPT !.stock_code = code.s, !.description = desc.s,
                               !.unit_price = PgNumeric(price).rows[1],
                               !.updated_at = clock]
       IN IF hit = {} THEN [result |-> Ok(<<>>), table |-> T]
          ELSE LET x == CHOOSE y \in hit : TRUE
               IN IF \E z \in T \ hit : z.stock_code = code.s
                  THEN [result |-> Failed(UniqueViolation), table |-> T]
                  ELSE [result |-> Ok(<<new(x)>>), table |-> (T \ hit) \cup {new(x)}]

\* DELETE FROM products WHERE product_id=$1 RETURNING *
Delete(T, id) ==
  IF PgInteger(id).err # NoError THEN [result |-> PgInteger(id), table |-> T]
  ELSE LET hit == { x \in T : x.product_id = PgInteger(id).rows[1] }
       IN IF hit = {} THEN [result |-> Ok(<<>>), table |-> T]
          ELSE [result |-> Ok(<<CHOOSE y \in hit : TRUE>>), table |-> T \ hit]

(***************************************************************************)
(* The application.                                                        *)
(***************************************************************************)
\* new Pool({ max: 20 })
PoolMax == 20

Json(status, body) == [status |-> status, body |-> body]
NoResponse == [status |-> 0, body |-> [none |-> TRUE]]

NoBody == [stock_code |-> Undef, description |-> Undef, unit_price |-> Undef]
NoQuery == [sort_by |-> Undef, sort_order |-> Undef]

Collection == [kind |-> "collection", seg |-> <<>>]
Item(seg) == [kind |-> "item", seg |-> seg]
SummaryPath == [kind |-> "summary", seg |-> <<>>]
HealthPath == [kind |-> "health", seg |-> <<>>]

LowStockSeg == <<"l", "o", "w", "-", "s", "t", "o", "c", "k">>

\* the routes in the order the application registers them
Routes ==
  << [method |-> "GET", kind |-> "collection", param |-> FALSE, seg |-> <<>>, handler |-> "list"],
     [method |-> "GET", kind |-> "item", param |-> TRUE, seg |-> <<>>, handler |-> "get"],
     [method |-> "POST", kind |-> "collection", param |-> FALSE, seg |-> <<>>, handler |-> "create"],
     [method |-> "PUT", kind |-> "item", param |-> TRUE, seg |-> <<>>, handler |-> "update"],
     [method |-> "DELETE", kind |-> "item", param |-> TRUE, seg |-> <<>>, handler |-> "delete"],
     [method |-> "GET", kind |-> "summary", param |-> FALSE, seg |-> <<>>, handler |-> "summary"],
     [method |-> "GET", kind |-> "item", param |-> FALSE, seg |-> LowStockSeg, handler |-> "lowStock"],
     [method |-> "GET", kind |-> "health", param |-> FALSE, seg |-> <<>>, handler |-> "health"] >>

\* a route matches on the method and the path; ":id" takes any segment
Matches(route, method, path) ==
  /\ route.method = method
  /\ route.kind = path.kind
  /\ route.param \/ route.seg = path.seg

\* the router runs the first route that matches; no handler passes control on
Dispatch(method, path) ==
  IF \E i \in 1..Len(Routes) : Matches(Routes[i], method, path)
  THEN Routes[CHOOSE i \in 1..Len(Routes) :
                /\ Matches(Routes[i], method, path)
                /\ \A j \in 1..(i - 1) : ~Matches(Routes[j], method, path)].handler
  ELSE "none"

\* validateProduct: the response it sends, or NoResponse when it calls next()
validateProduct(body) ==
  IF Falsy(body.stock_code) \/ Falsy(body.description)
  THEN Json(400, [error |-> "Missing required fields: stock_code and description"])
  ELSE IF body.unit_price # Undef /\ (isNaN(body.unit_price) \/ LeqZero(body.unit_price))
  THEN Json(400, [error |-> "unit_price must be a positive number"])
  ELSE NoResponse

\* handleDatabaseError without its case for the unique violation
handleDatabaseError_NoDuplicateCase(code) ==
  CASE code = "23503" -> Json(400, [error |-> "Invalid foreign key reference"])
    [] code = "23514" -> Json(400, [error |-> "Check constraint violation"])
    [] OTHER -> Json(500, [error |-> "Internal server error"])

\* handleDatabaseError: the switch on error.code
handleDatabaseError(code) ==
  CASE code = "23505" -> Json(409, [error |-> "Duplicate entry detected"])
    [] code = "23503" -> Json(400, [error |-> "Invalid foreign key reference"])
    [] code = "23514" -> Json(400, [error |-> "Check constraint violation"])
    [] OTHER -> Json(500, [error |-> "Internal server error"])

\* what a handler leaves behind: its response, the table, the sequence and how
\* many times it released its client
Outcome(resp, table, seq, released) ==
  [resp |-> resp, table |-> table, seq |-> seq, released |-> released]

validSort == {<<"p","r","o","d","u","c","t","_","i","d">>,
              <<"s","t","o","c","k","_","c","o","d","e">>,
              <<"d","e","s","c","r","i","p","t","i","o","n">>,
              <<"u","n","i","t","_","p","r","i","c","e">>}

ColumnName(s) ==
  CASE s = <<"p","r","o","d","u","c","t","_","i","d">> -> "product_id"
    [] s = <<"s","t","o","c","k","_","c","o","d","e">> -> "stock_code"
    [] s = <<"d","e","s","c","r","i","p","t","i","o","n">> -> "description"
    [] s = <<"u","n","i","t","_","p","r","i","c","e">> -> "unit_price"

\* const { sort_by = 'stock_code' } = req.query; validSort.includes(sort_by) ? sort_by : 'stock_code'
sortColumn(q) ==
  LET sort_by == IF q.sort_by = Undef THEN Str(<<"s","t","o","c","k","_","c","o","d","e">>)
                 ELSE q.sort_by
  IN IF sort_by.t = "string" /\ sort_by.s \in validSort
     THEN ColumnName(sort_by.s) ELSE "stock_code"

\* sort_order.toUpperCase() === 'DESC' ? 'DESC' : 'ASC'; a value without the
\* method toUpperCase throws a TypeError
order(q) ==
  LET sort_order == IF q.sort_order = Undef THEN Str(<<"A","S","C">>) ELSE q.sort_order
  IN IF sort_order.t # "string" THEN "TypeError"
     ELSE IF toUpperCase(sort_order.s) = <<"D","E","S","C">> THEN "DESC" ELSE "ASC"

DefaultPage == 1
DefaultLimit == 10

\* app.get('/api/products')
listProducts(rq, T, seq) ==
  LET offset == (DefaultPage - 1) * DefaultLimit
  IN IF order(rq.query) = "TypeError"
     THEN {Outcome(handleDatabaseError("undefined"), T, seq, 1)}
     ELSE { Outcome(Json(200, [success |-> TRUE, data |-> res.rows]), T, seq, 1) :
              res \in SelectList(T, sortColumn(rq.query), order(rq.query), DefaultLimit, offset) }

\* the try block without its test of result.rows.length
RowOr404_NoLengthTest(res) ==
  IF res.err # NoError THEN handleDatabaseError(res.err)
  ELSE IF Len(res.rows) = 0 THEN Json(200, [success |-> TRUE])
  ELSE Json(200, [success |-> TRUE, data |-> res.rows[1]])

\* the body of the try block after a lookup or an update by id
RowOr404(res) ==
  IF res.err # NoError THEN handleDatabaseError(res.err)
  ELSE IF Len(res.rows) = 0 THEN Json(404, [error |-> "Product not found"])
  ELSE Json(200, [success |-> TRUE, data |-> res.rows[1]])

\* the lookup with client.release() after the response instead of in finally:
\* the return on 404 skips it
getProduct_ReleaseAfterResponse(rq, T, seq) ==
  LET id == rq.path.seg
      isNumeric == ~isNaN(Str(id))
      results == IF isNumeric THEN SelectByProductId(T, parseInt(id))
                 ELSE SelectByStockCode(T, Str(id))
  IN { Outcome(RowOr404(res), T, seq,
               IF res.err = NoError /\ Len(res.rows) = 0 THEN 0 ELSE 1) : res \in results }

\* app.get('/api/products/:id')
getProduct(rq, T, seq) ==
  LET id == rq.path.seg
      isNumeric == ~isNaN(Str(id))
      results == IF isNumeric THEN SelectByProductId(T, parseInt(id))
                 ELSE SelectByStockCode(T, Str(id))
  IN { Outcome(RowOr404(res), T, seq, 1) : res \in results }

\* app.post('/api/products')
createProduct(rq, T, seq) ==
  LET ins == Insert(T, seq, rq.body.stock_code, rq.body.description, rq.body.unit_price)
  IN {Outcome(IF ins.result.err # NoError THEN handleDatabaseError(ins.result.err)
              ELSE Json(201, [success |-> TRUE, data |-> ins.result.rows[1]]),
              ins.table, ins.seq, 1)}

\* app.put('/api/products/:id')
updateProduct(rq, T, seq, clock) ==
  LET upd == Update(T, clock, rq.body.stock_code, rq.body.description,
                    rq.body.unit_price, Str(rq.path.seg))
  IN {Outcome(RowOr404(upd.result), upd.table, seq, 1)}

\* the delete without its test of result.rows.length
deleteProduct_NoLengthTest(rq, T, seq) ==
  LET del == Delete(T, Str(rq.path.seg))
  IN {Outcome(IF del.result.err # NoError THEN handleDatabaseError(del.result.err)
              ELSE IF Len(del.result.rows) = 0
              THEN Json(200, [success |-> TRUE, message |-> "Product deleted"])
              ELSE Json(200, [success |-> TRUE, message |-> "Product deleted",
                              data |-> del.result.rows[1]]),
              del.table, seq, 1)}

\* app.delete('/api/products/:id')
deleteProduct(rq, T, seq) ==
  LET del == Delete(T, Str(rq.path.seg))
  IN {Outcome(IF del.result.err # NoError THEN handleDatabaseError(del.result.err)
              ELSE IF Len(del.result.rows) = 0
              THEN Json(404, [error |-> "Product not found"])
              ELSE Json(200, [success |-> TRUE, message |-> "Product deleted",
                              data |-> del.result.rows[1]]),
              del.table, seq, 1)}

\* app.get('/api/products/analytics/summary')
analyticsSummary(rq, T, seq) ==
  {Outcome(Json(200, [success |-> TRUE, data |-> SelectSummary(T).rows[1]]), T, seq, 1)}

\* app.get('/api/products/low-stock')
lowStock(rq, T, seq) ==
  { Outcome(Json(200, [success |-> TRUE, data |-> res.rows]), T, seq, 1) :
      res \in SelectLowStock(T) }

\* app.get('/api/health'): pool.query checks a client out and back in itself
health(rq, T, seq, clock) ==
  {Outcome(Json(200, [success |-> TRUE, status |-> "healthy", timestamp |-> clock]), T, seq, 1)}

\* the handler the router chose, run from the resolution of pool.connect() on
Handle(rq, T, seq, clock) ==
  CASE rq.handler = "list" -> listProducts(rq, T, seq)
    [] rq.handler = "get" -> getProduct(rq, T, seq)
    [] rq.handler = "create" -> createProduct(rq, T, seq)
    [] rq.handler = "update" -> updateProduct(rq, T, seq, clock)
    [] rq.handler = "delete" -> deleteProduct(rq, T, seq)
    [] rq.handler = "summary" -> analyticsSummary(rq, T, seq)
    [] rq.handler = "lowStock" -> lowStock(rq, T, seq)
    [] rq.handler = "health" -> health(rq, T, seq, clock)

(***************************************************************************)
(* Requests.  Each of the NReq slots carries one request at a time, from   *)
(* its arrival to its response; a slot whose request is over takes the     *)
(* next one.                                                               *)
(***************************************************************************)
Slots == 1..NReq

Request(method, path, body, query) ==
  [method |-> method, path |-> path, body |-> body, query |-> query]

Body(code, desc, price) == [stock_code |-> code, description |-> desc, unit_price |-> price]

Query(by, ord) == [sort_by |-> by, sort_order |-> ord]

\* request bodies: a product with a numeric stock_code, one with the
\* stock_code of the imported row, one without unit_price, one whose
\* unit_price is the JSON value true
Widget == Body(Str(<<"1">>), Str(<<"W">>), Num(5))
Taken == Body(Str(<<"A">>), Str(<<"W">>), Num(5))
Unpriced == Body(Str(<<"1">>), Str(<<"W">>), Undef)
PricedTrue == Body(Str(<<"1">>), Str(<<"W">>), Bool(TRUE))

\* bodies with one field missing, empty or not positive
RejectedBodies ==
  { Body(Undef, Str(<<"W">>), Num(5)),
    Body(Str(<<>>), Str(<<"W">>), Num(5)),
    Body(Str(<<"A">>), Undef, Num(5)),
    Body(Str(<<"A">>), Str(<<>>), Num(5)),
    Body(Str(<<"A">>), Str(<<"W">>), Num(0)),
    Body(Str(<<"A">>), Str(<<"W">>), Num(0 - 1)),
    Body(Str(<<"A">>), Str(<<"W">>), Str(<<"x">>)) }

\* the workload of Spec: lookups, creates, updates and deletes
CrudRequests ==
  { Request("GET", Item(seg), NoBody, NoQuery) : seg \in {<<"1">>, <<"2">>, LowStockSeg} }
    \cup { Request("DELETE", Item(<<"1">>), NoBody, NoQuery) }
    \cup { Request("POST", Collection, b, NoQuery) : b \in {Widget, Taken, PricedTrue} }
    \cup { Request("PUT", Item(seg), b, NoQuery) : seg \in {<<"1">>, <<"A">>}, b \in {Widget, Taken} }
    \cup { Request("POST", Collection, b, NoQuery) : b \in RejectedBodies }

SortBys == {Undef, Str(<<"u","n","i","t","_","p","r","i","c","e">>),
            Str(<<"d","r","o","p","c","o","l","u","m","n">>), Arr}

SortOrders == {Undef, Str(<<"D","e","s","c">>), Str(<<"u","p">>), Arr}

\* the workload of SpecList: listings under every sort, and creates to list
ListRequests ==
  { Request("GET", Collection, NoBody, Query(by, ord)) : by \in SortBys, ord \in SortOrders }
    \cup { Request("POST", Collection, b, NoQuery) : b \in {Widget, Unpriced} }

\* the workload of SpecLoad: a lookup, a delete and a health check while
\* other requests hold clients
LoadRequests ==
  { Request("GET", Item(<<"1">>), NoBody, NoQuery),
    Request("DELETE", Item(<<"1">>), NoBody, NoQuery),
    Request("GET", HealthPath, NoBody, NoQuery) }

\* the workload of SpecDuplicates: creates, an update and a delete that
\* compete for two stock codes
DuplicateRequests ==
  { Request("POST", Collection, Widget, NoQuery),
    Request("POST", Collection, Taken, NoQuery),
    Request("PUT", Item(<<"1">>), Widget, NoQuery),
    Request("DELETE", Item(<<"1">>), NoBody, NoQuery) }

\* the workload of SpecDelete: deletes and lookups of one id, and creates
DeleteRequests ==
  { Request("DELETE", Item(<<"1">>), NoBody, NoQuery),
    Request("GET", Item(<<"1">>), NoBody, NoQuery),
    Request("POST", Collection, Widget, NoQuery) }

\* the workload of SpecUpdate: updates by an id that is a row's, was a row's
\* or is no integer
UpdateRequests ==
  { Request("PUT", Item(<<"1">>), Widget, NoQuery),
    Request("PUT", Item(<<"1">>), Taken, NoQuery),
    Request("PUT", Item(<<"A">>), Widget, NoQuery),
    Request("DELETE", Item(<<"1">>), NoBody, NoQuery) }

Idle ==
  [pc |-> "idle", method |-> "", path |-> Collection, body |-> NoBody, query |-> NoQuery,
   handler |-> "none", resp |-> NoResponse, acquired |-> 0, released |-> 0,
   timedOut |-> FALSE]

\* the exchange once it is over: the request line and the response
Done(rq, resp, released) ==
  [pc |-> "done", method |-> rq.method, path |-> rq.path, body |-> NoBody,
   query |-> NoQuery, handler |-> rq.handler, resp |-> resp, acquired |-> rq.acquired,
   released |-> released, timedOut |-> rq.timedOut]

Init ==
  /\ products = SeedRows
  /\ nextId = 2
  /\ now = 0
  /\ checkedOut = 0
  /\ background = 0
  /\ req = [r \in Slots |-> Idle]
  /\ deleted = {}

\* the request as its handler sees it when it calls pool.connect()
Routed(in) ==
  [pc |-> "connecting", method |-> in.method, path |-> in.path, body |-> in.body,
   query |-> in.query, handler |-> Dispatch(in.method, in.path), resp |-> NoResponse,
   acquired |-> 0, released |-> 0, timedOut |-> FALSE]

\* what validateProduct answers for a request routed to create or update
Validation(in) ==
  IF Dispatch(in.method, in.path) \in {"create", "update"}
  THEN validateProduct(in.body) ELSE NoResponse

\* A request arrives and is routed.  POST and PUT pass through validateProduct
\* first; the handler then calls pool.connect() and waits.
Arrive(r, in) ==
  /\ req[r].pc \in {"idle", "done", "abandoned"}
  /\ Dispatch(in.method, in.path) # "none"
  /\ Dispatch(in.method, in.path) = "create" => nextId <= MaxId
  /\ req' = [req EXCEPT ![r] = IF Validation(in) # NoResponse
                               THEN Done(Routed(in), Validation(in), 0)
                               ELSE Routed(in)]
  /\ UNCHANGED <<products, nextId, now, checkedOut, background, deleted>>

\* pool.connect() resolves with a client while fewer than max are checked out
Connect(r) ==
  /\ req[r].pc = "connecting"
  /\ checkedOut < PoolMax
  /\ checkedOut' = checkedOut + 1
  /\ req' = [req EXCEPT ![r].pc = "holding", ![r].acquired = 1]
  /\ UNCHANGED <<products, nextId, now, background, deleted>>

\* connectionTimeoutMillis elapses with every client checked out: the promise
\* of pool.connect() rejects.  The handlers await it outside their try block,
\* so the rejection leaves the handler and no response is written; the health
\* handler awaits pool.query inside its try block and answers 500.
ConnectTimeout(r) ==
  LET rq == [req[r] EXCEPT !.timedOut = TRUE]
  IN /\ req[r].pc = "connecting"
     /\ checkedOut = PoolMax
     /\ req' = [req EXCEPT ![r] =
                  IF rq.handler = "health"
                  THEN Done(rq, Json(500, [success |-> FALSE, status |-> "unhealthy",
                                           error |-> "timeout exceeded when trying to connect"]), 0)
                  ELSE [rq EXCEPT !.pc = "abandoned"]]
     /\ UNCHANGED <<products, nextId, now, checkedOut, background, deleted>>

\* The statement runs on the client and the handler finishes: the try block
\* or the catch block writes the response and the finally block releases.
Run(r) ==
  /\ req[r].pc = "holding"
  /\ \E out \in Handle(req[r], products, nextId, now) :
       /\ products' = out.table
       /\ nextId' = out.seq
       /\ checkedOut' = checkedOut - out.released
       /\ req' = [req EXCEPT ![r] = Done(req[r], out.resp, out.released)]
       /\ deleted' = IF req[r].handler = "delete" /\ out.resp.status = 200
                     THEN deleted \cup { x.product_id : x \in products \ out.table }
                     ELSE deleted
  /\ UNCHANGED <<now, background>>

\* CURRENT_TIMESTAMP advances
Tick ==
  /\ now < MaxClock
  /\ now' = now + 1
  /\ UNCHANGED <<products, nextId, checkedOut, background, req, deleted>>

\* Requests that are not tracked one by one (reads of the summary): each holds
\* one client from the resolution of pool.connect() to its finally block.
BackgroundConnect ==
  /\ checkedOut < PoolMax
  /\ checkedOut' = checkedOut + 1
  /\ background' = background + 1
  /\ UNCHANGED <<products, nextId, now, req, deleted>>

BackgroundRelease ==
  /\ background > 0
  /\ checkedOut' = checkedOut - 1
  /\ background' = background - 1
  /\ UNCHANGED <<products, nextId, now, req, deleted>>

Receive(W) == \E r \in Slots : \E in \in W : Arrive(r, in)

Next ==
  \/ Receive(CrudRequests)
  \/ \E r \in Slots : Connect(r)
  \/ \E r \in Slots : Run(r)
  \/ Tick

Spec == Init /\ [][Next]_vars

NextList ==
  \/ Receive(ListRequests)
  \/ \E r \in Slots : Connect(r)
  \/ \E r \in Slots : Run(r)

SpecList == Init /\ [][NextList]_vars

NextLoad ==
  \/ Receive(LoadRequests)
  \/ \E r \in Slots : Connect(r)
  \/ \E r \in Slots : ConnectTimeout(r)
  \/ \E r \in Slots : Run(r)
  \/ BackgroundConnect
  \/ BackgroundRelease

SpecLoad == Init /\ [][NextLoad]_vars

NextDuplicates ==
  \/ Receive(DuplicateRequests)
  \/ \E r \in Slots : Connect(r)
  \/ \E r \in Slots : Run(r)

SpecDuplicates == Init /\ [][NextDuplicates]_vars

NextDelete ==
  \/ Receive(DeleteRequests)
  \/ \E r \in Slots : Connect(r)
  \/ \E r \in Slots : Run(r)
  \/ Tick

SpecDelete == Init /\ [][NextDelete]_vars

NextUpdate ==
  \/ Receive(UpdateRequests)
  \/ \E r \in Slots : Connect(r)
  \/ \E r \in Slots : Run(r)
  \/ Tick

SpecUpdate == Init /\ [][NextUpdate]_vars

(***************************************************************************)
(* Properties.                                                             *)
(***************************************************************************)
\* the step in which the statement of slot r runs and its handler finishes
RunStep(r) == req[r].pc = "holding" /\ req'[r].pc = "done"

\* the precondition the specification states for create and update:
\* stock_code and description non-empty, unit_price absent or a positive number
MeetsPrecondition(body) ==
  /\ body.stock_code.t = "string" /\ body.stock_code.s # <<>>
  /\ body.description.t = "string" /\ body.description.s # <<>>
  /\ \/ body.unit_price.t = "undefined"
     \/ body.unit_price.t = "number" /\ body.unit_price.n > 0

\* the decimal numeral of a natural number
RECURSIVE Decimal(_)
Decimal(n) ==
  IF n < 10 THEN <<Digits[n + 1]>>
  ELSE Decimal(n \div 10) \o <<Digits[(n % 10) + 1]>>

\* the path segment id names the product_id of row x
IdMatches(id, x) ==
  /\ PgInteger(Str(id)).err = NoError
  /\ PgInteger(Str(id)).rows[1] = x.product_id

UniqueStockCodes(T) == \A x \in T : \A y \in T : x.stock_code = y.stock_code => x = y

\* every request of the workloads, and one handed to the low-stock handler
SampleRequests ==
  { Routed(in) : in \in { i \in CrudRequests \cup ListRequests \cup LoadRequests :
                            Validation(i) = NoResponse } }
    \cup { [Routed(Request("GET", Item(LowStockSeg), NoBody, NoQuery))
              EXCEPT !.handler = "lowStock"] }

\* C1: every handler that checked a client out releases it exactly once,
\* whatever its exit (200/201, 404, store error, exception), so a finished
\* request holds no client and the clients checked out are those of the
\* requests still running: none once all requests have finished.
C1_ReleasedExactlyOnce ==
  /\ \A rq \in SampleRequests :
       \A out \in Handle(rq, products, nextId, now) : out.released = 1
  /\ \A r \in Slots : req[r].pc = "done" => req[r].released = req[r].acquired
  /\ \A r \in Slots : req[r].pc = "holding" => req[r].acquired = 1 /\ req[r].released = 0
  /\ \A r \in Slots : req[r].pc \in {"idle", "connecting", "abandoned"} => req[r].acquired = 0
  /\ checkedOut = background + Cardinality({ r \in Slots : req[r].pc = "holding" })

\* two finished requests, a delete answered 200 and a lookup answered 404,
\* each with its client released, while other requests hold every client
C1_Witness ==
  \E r \in Slots : \E q \in Slots :
    /\ req[r].pc = "done" /\ req[r].handler = "get" /\ req[r].resp.status = 404
    /\ req[r].acquired = 1 /\ req[r].released = 1
    /\ req[q].pc = "done" /\ req[q].handler = "delete" /\ req[q].resp.status = 200
    /\ req[q].acquired = 1 /\ req[q].released = 1
    /\ checkedOut = background /\ background = PoolMax

\* C2: a request whose wait for a client timed out has failed: it has been
\* answered with an error response.
C2_TimeoutFailsRequest ==
  \A r \in Slots : req[r].timedOut => req[r].resp.status >= 400

\* a create, or an update of an existing row, whose body meets the
\* precondition and whose stock_code another row has
Clashes(rq, T) ==
  /\ MeetsPrecondition(rq.body)
  /\ \/ /\ rq.handler = "create"
        /\ \E x \in T : x.stock_code = rq.body.stock_code.s
     \/ /\ rq.handler = "update"
        /\ \E t \in T : /\ IdMatches(rq.path.seg, t)
                        /\ \E x \in T \ {t} : x.stock_code = rq.body.stock_code.s

\* C3: no two rows of the table ever have the same stock_code, and a create or
\* update that would give a row the stock_code of another row is answered 409
\* and leaves the table unchanged.
C3_StockCodeUnique ==
  [][/\ UniqueStockCodes(products) /\ UniqueStockCodes(products')
     /\ \A r \in Slots : RunStep(r) /\ Clashes(req[r], products) =>
          req'[r].resp.status = 409 /\ products' = products]_vars

\* a create and an update both answered 409, the table still duplicate-free
C3_Witness ==
  \E r \in Slots : \E q \in Slots :
    /\ req[r].pc = "done" /\ req[r].handler = "create" /\ req[r].resp.status = 409
    /\ req[q].pc = "done" /\ req[q].handler = "update" /\ req[q].resp.status = 409
    /\ Cardinality(products) = 2

\* C4: a create or update whose body does not meet the precondition is
\* answered 400 by the validation: it never waits for or holds a client.
C4_InvalidBodyRejected ==
  \A r \in Slots :
    req[r].handler \in {"create", "update"} /\ req[r].pc \in {"connecting", "holding"}
      => MeetsPrecondition(req[r].body)

Lookup(seg) ==
  [Idle EXCEPT !.pc = "holding", !.method = "GET", !.path = Item(seg), !.handler = "get"]

\* C5: for every row of the table, the lookup by its product_id and the lookup
\* by its stock_code both answer 200 with that row.
C5_BothIdentifiersSameRow ==
  \A x \in products :
    \A seg \in {Decimal(x.product_id), x.stock_code} :
      \A out \in getProduct(Lookup(seg), products, nextId) :
        out.resp = Json(200, [success |-> TRUE, data |-> x])

\* C6: every response carries a boolean success field.
C6_EveryResponseHasSuccess ==
  \A r \in Slots :
    req[r].resp.status # 0 =>
      /\ "success" \in DOMAIN req[r].resp.body
      /\ req[r].resp.body.success \in BOOLEAN

\* C7: GET /api/products/low-stock is served by the low-stock handler and
\* answered 200 with rows whose stock_quantity is at most their reorder_level,
\* in ascending order of stock_quantity.
C7_LowStockServed ==
  \A r \in Slots :
    req[r].pc = "done" /\ req[r].method = "GET" /\ req[r].path = Item(LowStockSeg) =>
      /\ req[r].handler = "lowStock"
      /\ req[r].resp.status = 200
      /\ \A i \in 1..Len(req[r].resp.body.data) :
           req[r].resp.body.data[i].stock_quantity <= req[r].resp.body.data[i].reorder_level
      /\ IsOrdered(req[r].resp.body.data, "stock_quantity", "ASC")

\* the request names, by its path segment, a product_id that a delete removed
TargetDeleted(rq) ==
  /\ PgInteger(Str(rq.path.seg)).err = NoError
  /\ PgInteger(Str(rq.path.seg)).rows[1] \in deleted

\* C8: a delete answered 200 returns the row as it was and removes exactly that
\* row; from then on every get and every delete of that id is answered 404 and
\* leaves the table as it is.
C8_DeletedStaysGone ==
  [][\A r \in Slots : RunStep(r) =>
       /\ req[r].handler = "delete" /\ req'[r].resp.status = 200 =>
            /\ "data" \in DOMAIN req'[r].resp.body
            /\ req'[r].resp.body.data \in products
            /\ IdMatches(req[r].path.seg, req'[r].resp.body.data)
            /\ products' = products \ {req'[r].resp.body.data}
       /\ req[r].handler \in {"get", "delete"} /\ TargetDeleted(req[r]) =>
            /\ req'[r].resp.status = 404
            /\ products' = products]_vars

\* after the delete of product 1, a get and a second delete of it answered 404
C8_Witness ==
  \E r \in Slots : \E q \in Slots :
    /\ 1 \in deleted
    /\ req[r].pc = "done" /\ req[r].handler = "get" /\ req[r].path = Item(<<"1">>)
    /\ req[r].resp.status = 404
    /\ req[q].pc = "done" /\ req[q].handler = "delete" /\ req[q].path = Item(<<"1">>)
    /\ req[q].resp.status = 404

\* the update of slot r touches nothing but the stock_code, description,
\* unit_price and updated_at of the row its id names
OnlyTargetChanges(r) ==
  \A t \in products : IdMatches(req[r].path.seg, t) =>
    \/ products' = products
    \/ \E u \in products' :
         /\ u = [t EXCEPT !.stock_code = u.stock_code, !.description = u.description,
                          !.unit_price = u.unit_price, !.updated_at = u.updated_at]
         /\ products' = (products \ {t}) \cup {u}

StatedColumn(q) ==
  IF q.sort_by.t = "string" /\ q.sort_by.s \in validSort
  THEN ColumnName(q.sort_by.s) ELSE "stock_code"

StatedDirection(q) ==
  IF q.sort_order.t = "string" /\ toUpperCase(q.sort_order.s) = <<"D","E","S","C">>
  THEN "DESC" ELSE "ASC"

\* C10: every listing is answered 200 with its rows ordered by sort_by when it
\* is in the allow-list and by stock_code otherwise, descending when sort_order
\* is DESC in any letter case and ascending otherwise.
C10_SortAllowList ==
  \A r \in Slots :
    req[r].handler = "list" /\ req[r].pc = "holding" =>
      \A out \in listProducts(req[r], products, nextId) :
        /\ out.resp.status = 200
        /\ IsOrdered(out.resp.body.data, StatedColumn(req[r].query),
                     StatedDirection(req[r].query))

====
